---- MODULE Spec2Model ----
\* Model of pollenmobile_sync (main.go): one process run of main, the
\* retrying primary-API fetch, the reverse-geocode cache and the three sync
\* routines writing to the relational store, over successive process runs.
EXTENDS Integers, Sequences, FiniteSets, TLC

\* ------------------------------------------------------------------ bounds
MaxRuns == 2        \* successive process runs (cron invocations) explored
MaxVer  == 1        \* upstream data versions 0..MaxVer
MaxFaults == 3      \* failures (HTTP attempts, store statements) the environment injects
MaxTokens == 3      \* comma-separated tokens in a string given to isValidHex

\* ------------------------------------------------------- program constants
pollenRetries == 3
batchSize == 200
HexLen == 15

\* ------------------------------------------------------------------ values
Nil == <<>>                                   \* the nil error
Cells == {"c1", "c2"}                         \* cell IDs the upstream knows
Outcomes == {"ok", "transport", "decode"}     \* what one HTTP attempt can do

Rep(c, n) == [i \in 1..n |-> c]
ArgA   == Rep("a", HexLen)                    \* a valid hex group
ArgB   == Rep("b", HexLen)                    \* another valid hex group
ArgBad == Rep("a", HexLen) \o <<",">>         \* trailing comma: empty token
\* the command lines explored
ArgLists == {<<>>, <<ArgB, ArgA>>, <<ArgB, ArgB>>, <<ArgB, ArgBad>>}

HexDigits == {"0", "1", "2", "3", "4", "5", "6", "7", "8", "9",
              "a", "b", "c", "d", "e", "f", "A", "B", "C", "D", "E", "F"}

\* ------------------------------------------------------------ pure helpers
\* strings.Split(s, ","): the tokens between commas, empty tokens included.
RECURSIVE Split(_)
Split(s) ==
    IF \A i \in 1..Len(s) : s[i] # ","
    THEN <<s>>
    ELSE LET k == CHOOSE i \in 1..Len(s) :
                      s[i] = "," /\ \A j \in 1..(i - 1) : s[j] # ","
         IN  <<SubSeq(s, 1, k - 1)>> \o Split(SubSeq(s, k + 1, Len(s)))

\* strconv.ParseInt(tok, 16, 64) succeeds: optional sign, then one or more
\* hex digits (a 15-character token cannot overflow 64 bits).
ParseIntOK(tok) ==
    LET body == IF Len(tok) > 0 /\ tok[1] \in {"+", "-"}
                THEN SubSeq(tok, 2, Len(tok)) ELSE tok
    IN  Len(body) > 0 /\ \A i \in 1..Len(body) : body[i] \in HexDigits

\* variant: the length test of line 599 is missing
isValidHexNoLength(s) ==
    \A k \in 1..Len(Split(s)) : ParseIntOK(Split(s)[k])

isValidHex(s) ==
    \A k \in 1..Len(Split(s)) :
        Len(Split(s)[k]) = HexLen /\ ParseIntOK(Split(s)[k])

\* the guard of main's loop body, line 50
ArgRejected(hexGroup) == hexGroup = <<>> \/ ~isValidHex(hexGroup)

RECURSIVE SeqToSet(_)
SeqToSet(s) == IF s = <<>> THEN {} ELSE {Head(s)} \cup SeqToSet(Tail(s))

Perms(S) == {p \in [1..Cardinality(S) -> S] : \A x \in S : \E i \in DOMAIN p : p[i] = x}

\* ------------------------------------------------------- upstream (fakes)
\* hexToLatLng: the external cell-to-coordinate function.
hexToLatLng(hex) == IF hex = "c1" THEN <<1, 10>> ELSE <<2, 20>>

\* Nominatim's answer for a cell at upstream version v.
OSMPlace(hex, v) == [display_name |-> <<hex, v>>, suburb |-> <<"sub", hex, v>>]

\* flower list of the primary API; f2 moves from c1 to c2 at version 1.
FlowersAt(v) ==
    << [ID |-> "f1", H3Hex |-> "c1", Nickname |-> v],
       [ID |-> "f2", H3Hex |-> (IF v = 0 THEN "c1" ELSE "c2"), Nickname |-> v] >>

\* JSON values of the coverage field as sent by the upstream.
JArray(elems) == [json |-> "array", v |-> elems]
JString(s)    == [json |-> "string", v |-> <<s>>]

\* device-rewards-all: date -> list of reward items (JSON).
RewardsAt(device, v) ==
    IF device = "f1"
    THEN [d \in {"d1", "d2"} |->
            IF d = "d1"
            THEN << [rewardID |-> "r1", device |-> "f1", PCN |-> v,
                     coverage |-> JArray(<<JString("c1"), JString("c2")>>)] >>
            ELSE << [rewardID |-> "r2", device |-> "f1", PCN |-> v,
                     coverage |-> JString("[]")] >>]
    ELSE [d \in {"d1"} |->
            << [rewardID |-> "r3", device |-> device, PCN |-> v,
                coverage |-> JArray(<<JString("c2")>>)] >>]

\* hexes?h3_hex_top=area: the covered cells inside the given top-level hexes.
ChildCells(tok) == IF tok = ArgA THEN <<"c1", "c2">> ELSE <<"c2">>
RECURSIVE HexListOfTokens(_, _)
HexListOfTokens(toks, v) ==
    IF toks = <<>> THEN <<>>
    ELSE [i \in 1..Len(ChildCells(Head(toks))) |->
             [ID |-> ChildCells(Head(toks))[i], FlowerCount |-> v + i]]
         \o HexListOfTokens(Tail(toks), v)
HexListAt(area, v) == HexListOfTokens(Split(area), v)

\* hex?h3_hex=id: the per-hex detail.
HexDetailAt(hex, v) == [Attach |-> v + 1, Flowers |-> <<"f1">>]

\* --------------------------------------------------------------- decoding
\* encoding/json into an interface{} field: a JSON array becomes a
\* []interface{} whatever its elements are, a JSON string becomes a string.
RECURSIVE DecodeInterface(_)
DecodeInterface(j) ==
    IF j.json = "array"
    THEN [type |-> "[]interface{}",
          v |-> [i \in 1..Len(j.v) |-> DecodeInterface(j.v[i])]]
    ELSE [type |-> "string", v |-> j.v]

DecodeRewardItem(r) ==
    [RewardID |-> r.rewardID, Device |-> r.device, PCN |-> r.PCN,
     Coverage |-> DecodeInterface(r.coverage)]

\* the decoded response of one successful GET of the primary API
Response(fn, arg, v) ==
    CASE fn = "getAllFlowers" -> FlowersAt(v)
      [] fn = "getRewards"    ->
            [d \in DOMAIN RewardsAt(arg, v) |->
                [i \in 1..Len(RewardsAt(arg, v)[d]) |->
                    DecodeRewardItem(RewardsAt(arg, v)[d][i])]]
      [] fn = "getAllHexes"   -> HexListAt(arg, v)
      [] fn = "getHexDetails" -> HexDetailAt(arg, v)

\* the zero value of the type parameter T at each call site
ZeroT(fn) ==
    IF fn = "getHexDetails" THEN [Attach |-> 0, Flowers |-> <<>>] ELSE <<>>

\* variant: Coverage declared []string, into which a JSON string does not
\* unmarshal
CoverageDecodesAsStringSlice(j) == j.json = "array"

\* json decoding into the interface{} field Coverage takes any JSON value
CoverageDecodes(j) == j.json \in {"array", "string"}

\* whether the body the upstream sends at version v decodes into T
BodyDecodes(fn, arg, v) ==
    fn = "getRewards" =>
        \A d \in DOMAIN RewardsAt(arg, v) : \A i \in 1..Len(RewardsAt(arg, v)[d]) :
            CoverageDecodes(RewardsAt(arg, v)[d][i].coverage)

\* one pollenAPICall: the (t, err) it returns for the attempt's outcome
pollenAPICall(fn, arg, outcome, v, n) ==
    IF outcome = "ok"
    THEN IF BodyDecodes(fn, arg, v)
         THEN [t |-> Response(fn, arg, v), err |-> Nil]
         ELSE [t |-> ZeroT(fn), err |-> <<"coverage", n>>]
    ELSE [t |-> ZeroT(fn), err |-> <<outcome, n>>]

\* ------------------------------------------------------------------ store
\* variant: ON CONFLICT (id) DO NOTHING, as without UpdateAll
UpsertDoNothing(table, row, now, clauseTime) ==
    IF \E r \in table : r.ID = row.ID
    THEN table
    ELSE table \cup {[row EXCEPT !.UpdatedAt = now]}

\* INSERT ... ON CONFLICT (id) DO UPDATE SET <all columns>, updated_at = <the
\* value held by upsertClause>; a fresh row takes the column default
\* current_timestamp.
Upsert(table, row, now, clauseTime) ==
    IF \E r \in table : r.ID = row.ID
    THEN {r \in table : r.ID # row.ID} \cup {[row EXCEPT !.UpdatedAt = clauseTime]}
    ELSE table \cup {[row EXCEPT !.UpdatedAt = now]}

RECURSIVE UpsertAll(_, _, _, _)
UpsertAll(table, rows, now, clauseTime) ==
    IF rows = <<>> THEN table
    ELSE UpsertAll(Upsert(table, Head(rows), now, clauseTime), Tail(rows), now, clauseTime)

\* one INSERT statement cannot touch the same key twice
StatementOK(rows) ==
    \A i, j \in 1..Len(rows) : rows[i].ID = rows[j].ID => i = j

RECURSIVE Chunks(_, _)
Chunks(rows, size) ==
    IF Len(rows) <= size THEN (IF rows = <<>> THEN <<>> ELSE <<rows>>)
    ELSE <<SubSeq(rows, 1, size)>> \o Chunks(SubSeq(rows, size + 1, Len(rows)), size)

\* db.Clauses(upsertClause).CreateInBatches(&rows, size): nothing is written
\* unless every statement succeeds.
CreateInBatches(table, rows, size, now, clauseTime, dbOk) ==
    IF rows = <<>> THEN [table |-> table, err |-> Nil, n |-> 0]
    ELSE IF dbOk /\ \A k \in 1..Len(Chunks(rows, size)) : StatementOK(Chunks(rows, size)[k])
    THEN [table |-> UpsertAll(table, rows, now, clauseTime), err |-> Nil, n |-> Len(rows)]
    ELSE [table |-> table, err |-> <<"db">>, n |-> 0]

\* variant: the row is written although the statement reports an error
CreateWritesOnError(table, row, now, clauseTime, dbOk) ==
    [table |-> Upsert(table, row, now, clauseTime),
     err |-> IF dbOk THEN Nil ELSE <<"db">>, n |-> 1]

\* db.Clauses(upsertClause).Create(&row)
Create(table, row, now, clauseTime, dbOk) ==
    IF dbOk
    THEN [table |-> Upsert(table, row, now, clauseTime), err |-> Nil, n |-> 1]
    ELSE [table |-> table, err |-> <<"db">>, n |-> 0]

\* variant: the query returns one id only (as with LIMIT 1)
FindFlowerNamesLimitOne(table) ==
    IF table = {} THEN {<<>>} ELSE {<<r.ID>> : r \in table}

\* db.Table(tableNameFlower).Select("id").Find(&flowerNames): the ids of all
\* rows, in any order
FindFlowerNames(table) == Perms({r.ID : r \in table})

\* variant: each flower is upserted as soon as it is enriched
flowersLoopStoreUpserts(table, row, now, clauseTime) ==
    Upsert(table, row, now, clauseTime)

\* what an iteration of the loop of syncFlowers does to pollen_flowers with
\* the row it has built: the row goes into the slice flowers, the table is
\* left alone
flowersLoopStore(table, row, now, clauseTime) == table

\* the columns of a row other than last-updated
Cols(row) == [row EXCEPT !.UpdatedAt = 0]
Proj(table) == {Cols(r) : r \in table}
Keys(table) == {r.ID : r \in table}

\* ---------------------------------------------------------- geocode cache
GeoOf(row) == [Lat |-> row.Lat, Lng |-> row.Lng, Address |-> row.Address,
               Suburb |-> row.Suburb]
ZeroGeo == [Lat |-> 0, Lng |-> 0, Address |-> <<>>, Suburb |-> <<>>]

\* variant: pollen_flowers is loaded first, pollen_hexes overwrites it
WarmCachesHexLast(hexes, flowers) ==
    LET keys == Keys(hexes) \cup {f.H3Hex : f \in flowers}
        cand(k) == IF \E h \in hexes : h.ID = k
                   THEN {GeoOf(h) : h \in {g \in hexes : g.ID = k}}
                   ELSE {GeoOf(f) : f \in {g \in flowers : g.H3Hex = k}}
    IN  {c \in [keys -> {GeoOf(r) : r \in hexes \cup flowers}] :
            \A k \in keys : c[k] \in cand(k)}

\* initGeocodeCache: the caches that loading pollen_hexes by id and then
\* pollen_flowers by h3_hex can leave (rows of a table come in any order).
WarmCaches(hexes, flowers) ==
    LET keys == Keys(hexes) \cup {f.H3Hex : f \in flowers}
        cand(k) == IF \E f \in flowers : f.H3Hex = k
                   THEN {GeoOf(f) : f \in {g \in flowers : g.H3Hex = k}}
                   ELSE {GeoOf(h) : h \in {g \in hexes : g.ID = k}}
    IN  {c \in [keys -> {GeoOf(r) : r \in hexes \cup flowers}] :
            \A k \in keys : c[k] \in cand(k)}

\* variant: the lookup at lines 552-554 is missing
reverseGeocodeNoLookup(cache, hex, outcome, v) ==
    IF outcome # "ok"
    THEN [ret |-> ZeroGeo, err |-> <<outcome, "osm">>, cache |-> cache, called |-> TRUE]
    ELSE LET g == [Lat |-> hexToLatLng(hex)[1], Lng |-> hexToLatLng(hex)[2],
                   Address |-> OSMPlace(hex, v).display_name,
                   Suburb |-> OSMPlace(hex, v).suburb]
         IN  [ret |-> g, err |-> Nil,
              cache |-> [k \in DOMAIN cache \cup {hex} |->
                            IF k = hex THEN g ELSE cache[k]],
              called |-> TRUE]

\* variant: the store at line 584 is missing
reverseGeocodeNoStore(cache, hex, outcome, v) ==
    IF hex \in DOMAIN cache
    THEN [ret |-> cache[hex], err |-> Nil, cache |-> cache, called |-> FALSE]
    ELSE IF outcome # "ok"
    THEN [ret |-> ZeroGeo, err |-> <<outcome, "osm">>, cache |-> cache, called |-> TRUE]
    ELSE [ret |-> [Lat |-> hexToLatLng(hex)[1], Lng |-> hexToLatLng(hex)[2],
                   Address |-> OSMPlace(hex, v).display_name,
                   Suburb |-> OSMPlace(hex, v).suburb],
          err |-> Nil, cache |-> cache, called |-> TRUE]

\* variant: a failed miss leaves a zero entry in the cache
reverseGeocodeCachesFailure(cache, hex, outcome, v) ==
    IF hex \in DOMAIN cache
    THEN [ret |-> cache[hex], err |-> Nil, cache |-> cache, called |-> FALSE]
    ELSE IF outcome # "ok"
    THEN [ret |-> ZeroGeo, err |-> <<outcome, "osm">>,
          cache |-> [k \in DOMAIN cache \cup {hex} |->
                        IF k = hex THEN ZeroGeo ELSE cache[k]],
          called |-> TRUE]
    ELSE LET g == [Lat |-> hexToLatLng(hex)[1], Lng |-> hexToLatLng(hex)[2],
                   Address |-> OSMPlace(hex, v).display_name,
                   Suburb |-> OSMPlace(hex, v).suburb]
         IN  [ret |-> g, err |-> Nil,
              cache |-> [k \in DOMAIN cache \cup {hex} |->
                            IF k = hex THEN g ELSE cache[k]],
              called |-> TRUE]

\* variant: a successful miss replaces the whole cache by the new entry
reverseGeocodeEvicts(cache, hex, outcome, v) ==
    IF hex \in DOMAIN cache
    THEN [ret |-> cache[hex], err |-> Nil, cache |-> cache, called |-> FALSE]
    ELSE IF outcome # "ok"
    THEN [ret |-> ZeroGeo, err |-> <<outcome, "osm">>, cache |-> cache, called |-> TRUE]
    ELSE LET g == [Lat |-> hexToLatLng(hex)[1], Lng |-> hexToLatLng(hex)[2],
                   Address |-> OSMPlace(hex, v).display_name,
                   Suburb |-> OSMPlace(hex, v).suburb]
         IN  [ret |-> g, err |-> Nil, cache |-> [k \in {hex} |-> g], called |-> TRUE]

\* reverseGeocode(hex) against cache `cache`: what it returns, the cache it
\* leaves and whether it went to the upstream.
reverseGeocode(cache, hex, outcome, v) ==
    IF hex \in DOMAIN cache
    THEN [ret |-> cache[hex], err |-> Nil, cache |-> cache, called |-> FALSE]
    ELSE IF outcome # "ok"
    THEN [ret |-> ZeroGeo, err |-> <<outcome, "osm">>, cache |-> cache, called |-> TRUE]
    ELSE LET g == [Lat |-> hexToLatLng(hex)[1], Lng |-> hexToLatLng(hex)[2],
                   Address |-> OSMPlace(hex, v).display_name,
                   Suburb |-> OSMPlace(hex, v).suburb]
         IN  [ret |-> g, err |-> Nil,
              cache |-> [k \in DOMAIN cache \cup {hex} |->
                            IF k = hex THEN g ELSE cache[k]],
              called |-> TRUE]

\* ------------------------------------------------------------------ state
VARIABLES
    pc,          \* where main is: the call it is about to make or is inside
    run,         \* ordinal of the current process run
    clock,       \* wall clock
    upsertTime,  \* the time.Now() evaluated into upsertClause at package init
    args,        \* os.Args[1:]
    argIdx,      \* index of the hexGroup main's loop is at
    upVer,       \* version of the upstream data (primary API and Nominatim)
    hexTable, flowerTable, rewardTable,     \* pollen_hexes, _flowers, _rewards
    osmCache,    \* the package-level cache map
    call,        \* the pollenAPICallWithRetries in progress
    items, idx, acc,    \* the list a routine ranges over, its position, flowers built
    netReqs,     \* whether an HTTP request was issued in this run
    dbWrites,    \* whether a row was written to the store in this run
    osmCalls,    \* Nominatim requests per cell in this run
    osmLookups,  \* reverseGeocode invocations per cell in this run
    geoRet,      \* the last reverseGeocode invocation and what it returned
    trace,       \* calls and returns of main's phases in this run
    lastUpsert,  \* per table and key: columns and time of the latest upsert, and how many
    snap,        \* per routine: input, upstream version and table columns at its last return
    faults,      \* failures injected so far
    retErr,      \* the error the phase in progress returned to main, nil if none
    ops,         \* limiter acquisitions and upstream requests of the last network step
    rewardReqs,  \* device names getRewards was called with in this run, in order
    vIn, vOut    \* the string given to isValidHex and what it returned

store == <<hexTable, flowerTable, rewardTable>>
geoObs == <<osmCalls, osmLookups, geoRet>>
loopv == <<items, idx, acc>>
proc == <<run, upsertTime, args, upVer>>
probe == <<vIn, vOut>>
vars == <<pc, run, clock, upsertTime, args, argIdx, upVer, hexTable, flowerTable,
          rewardTable, osmCache, call, items, idx, acc, netReqs, dbWrites,
          osmCalls, osmLookups, geoRet, trace, lastUpsert, snap, faults,
          retErr, ops, rewardReqs, vIn, vOut>>

Routines == {"syncFlowers", "syncRewards", "syncHexes"}

NoRet == [t |-> <<>>, err |-> Nil]
NoCall == [status |-> "idle", fn |-> "", arg |-> <<>>, i |-> 0, t |-> <<>>,
           err |-> Nil, attempts |-> 0, sleeps |-> 0, last |-> NoRet, ret |-> NoRet]
\* entry of pollenAPICallWithRetries: the named results t, err hold their
\* zero values
NewCall(fn, arg) ==
    [NoCall EXCEPT !.status = "running", !.fn = fn, !.arg = arg, !.t = ZeroT(fn)]

NoGeoRet == [n |-> 0, hex |-> "", cached |-> FALSE, ret |-> ZeroGeo, err |-> Nil]
NoSnap == [valid |-> FALSE, input |-> <<>>, ver |-> 0, proj |-> {}]

\* variant: the loop has no bound, it retries until an attempt succeeds
RetryStepUnbounded(c, outcome, v) ==
    LET r   == pollenAPICall(c.fn, c.arg, outcome, v, c.i + 1)
        att == [c EXCEPT !.attempts = @ + 1, !.last = r]
    IN  IF r.err = Nil
        THEN [att EXCEPT !.status = "returned", !.ret = r]
        ELSE [att EXCEPT !.sleeps = @ + 1]

\* one iteration of the loop of pollenAPICallWithRetries, and the return
\* after the loop when it was the last one. The loop body declares its own
\* t, err with := ; the named results keep their entry values.
RetryStep(c, outcome, v) ==
    LET r   == pollenAPICall(c.fn, c.arg, outcome, v, c.i + 1)
        att == [c EXCEPT !.attempts = @ + 1, !.last = r]
    IN  IF r.err = Nil
        THEN [att EXCEPT !.status = "returned", !.ret = r]
        ELSE LET slept == [att EXCEPT !.sleeps = @ + 1, !.i = @ + 1]
             IN  IF slept.i < pollenRetries
                 THEN slept
                 ELSE [slept EXCEPT !.status = "returned",
                                    !.ret = [t |-> c.t, err |-> c.err]]

\* variant: rewards synced before flowers
mainOrderRewardsFirst ==
    <<"initGeocodeCache", "syncRewards", "syncFlowers", "hexGroups">>

\* the order in which main runs its phases
mainOrder == <<"initGeocodeCache", "syncFlowers", "syncRewards", "hexGroups">>
mainNext(p) ==
    mainOrder[(CHOOSE k \in 1..Len(mainOrder) : mainOrder[k] = p) + 1]

Ev(kind, name, k) == <<kind, name, k>>

\* the upsert log after the statement(s) writing `rows` at time `now`
LogRows(log, tbl, rows, now) ==
    LET before(id) == {e \in log : e.tbl = tbl /\ e.id = id}
        count(id) == IF before(id) = {} THEN 0 ELSE (CHOOSE e \in before(id) : TRUE).n
    IN  {e \in log : ~(e.tbl = tbl /\ \E i \in 1..Len(rows) : rows[i].ID = e.id)}
        \cup {[tbl |-> tbl, id |-> rows[i].ID, cols |-> Cols(rows[i]), at |-> now,
               n |-> count(rows[i].ID) + 1] : i \in 1..Len(rows)}

\* the type switch of syncRewards, lines 78-82
NormalizeCoverage(c) == IF c.type = "[]string" THEN c.v ELSE <<>>

RECURSIVE Flatten(_, _)
\* getRewards, lines 447-450: the lists of all dates appended in map order
Flatten(byDate, order) ==
    IF order = <<>> THEN <<>>
    ELSE byDate[Head(order)] \o Flatten(byDate, Tail(order))

FlowerRow(f, geo) ==
    [ID |-> f.ID, H3Hex |-> f.H3Hex, Nickname |-> f.Nickname,
     Lat |-> geo.Lat, Lng |-> geo.Lng, Address |-> geo.Address,
     Suburb |-> geo.Suburb, UpdatedAt |-> 0]
RewardRow(r) ==
    [ID |-> r.RewardID, Device |-> r.Device, PCN |-> r.PCN,
     Coverage |-> NormalizeCoverage(r.Coverage), UpdatedAt |-> 0]
HexRow(hex, geo, details) ==
    [ID |-> hex.ID, FlowerCount |-> hex.FlowerCount,
     Lat |-> geo.Lat, Lng |-> geo.Lng, Address |-> geo.Address,
     Suburb |-> geo.Suburb, Attach |-> details.Attach,
     Flowers |-> details.Flowers, UpdatedAt |-> 0]

\* variant: main goes on after a phase returned an error
handleErrIgnore(err, next) == next

\* handleErr(err) in main: panic on a non-nil error, else go on to `next`
handleErr(err, next) == IF err # Nil THEN "panic" ELSE next

\* variant: the request is sent without taking the limiter
pollenAPICallOpsNoTake == <<"GET pollen">>

\* what one pollenAPICall does to the limiters and the upstream, lines 466-476
pollenAPICallOps == <<"pollenRateLimit.Take", "GET pollen">>

\* what one reverseGeocode does to them: nothing on a hit (lines 552-554),
\* else lines 555-564
reverseGeocodeOps(hit) == IF hit THEN <<>> ELSE <<"osmRateLimit.Take", "GET osm">>

\* ------------------------------------------------------------------- Init
Init ==
    /\ pc = "initGeocodeCache"
    /\ run = 1
    /\ clock = 0
    /\ upsertTime = 0
    /\ args \in ArgLists
    /\ argIdx = 1
    /\ upVer = 0
    /\ hexTable = {} /\ flowerTable = {} /\ rewardTable = {}
    /\ osmCache = <<>>
    /\ call = NoCall
    /\ items = <<>> /\ idx = 1 /\ acc = <<>>
    /\ netReqs = FALSE /\ dbWrites = FALSE
    /\ osmCalls = [c \in Cells |-> 0]
    /\ osmLookups = [c \in Cells |-> 0]
    /\ geoRet = NoGeoRet
    /\ trace = <<>>
    /\ lastUpsert = {}
    /\ snap = [r \in Routines |-> NoSnap]
    /\ faults = 0
    /\ retErr = Nil
    /\ ops = <<>>
    /\ rewardReqs = <<>>
    /\ vIn = <<>> /\ vOut = <<>>

\* the observations of one reverseGeocode invocation with result g
GeoObserved(hex, g) ==
    /\ osmCalls' = IF g.called THEN [osmCalls EXCEPT ![hex] = @ + 1] ELSE osmCalls
    /\ osmLookups' = [osmLookups EXCEPT ![hex] = @ + 1]
    /\ geoRet' = [n |-> geoRet.n + 1, hex |-> hex, cached |-> hex \in DOMAIN osmCache,
                  ret |-> g.ret, err |-> g.err]

\* what the environment may do to one HTTP attempt / one store statement
MayDo == IF faults < MaxFaults THEN Outcomes ELSE {"ok"}
DbMay == IF faults < MaxFaults THEN BOOLEAN ELSE {TRUE}
Injected(failed) == faults' = IF failed THEN faults + 1 ELSE faults

\* a routine starts: its snapshot stays valid only if it is about to run again
\* on the same input and upstream version over the table as it left it
Arm(routine, input, table) ==
    snap' = [snap EXCEPT ![routine].valid =
                (@ /\ snap[routine].input = input /\ snap[routine].ver = upVer
                   /\ snap[routine].proj = Proj(table))]

Snapshot(routine, input, table) ==
    snap' = [snap EXCEPT ![routine] =
                [valid |-> TRUE, input |-> input, ver |-> upVer, proj |-> Proj(table)]]

\* ---------------------------------------------------------------- actions
\* main line 45: handleErr(initGeocodeCache(db))
InitGeocodeCache ==
    /\ pc = "initGeocodeCache"
    /\ \E dbOk \in DbMay, cache \in WarmCaches(hexTable, flowerTable) :
         /\ Injected(~dbOk)
         /\ retErr' = (IF dbOk THEN Nil ELSE <<"db">>)
         /\ pc' = handleErr(IF dbOk THEN Nil ELSE <<"db">>, mainNext("initGeocodeCache"))
         /\ IF dbOk
            THEN
              /\ osmCache' = cache
              /\ trace' = trace \o <<Ev("call", "initGeocodeCache", 0),
                                     Ev("ret", "initGeocodeCache", 0)>>
            ELSE
              /\ trace' = Append(trace, Ev("call", "initGeocodeCache", 0))
              /\ UNCHANGED osmCache
    /\ UNCHANGED <<probe, ops, rewardReqs, proc, clock, argIdx, store, call, loopv,
                   netReqs, dbWrites, geoObs, lastUpsert, snap>>

\* one attempt of the fetch in progress
PollenAttempt ==
    /\ call.status = "running"
    /\ \E outcome \in MayDo :
         /\ call' = RetryStep(call, outcome, upVer)
         /\ Injected(outcome # "ok")
    /\ netReqs' = TRUE
    /\ ops' = pollenAPICallOps
    /\ UNCHANGED <<probe, retErr, rewardReqs, pc, proc, clock, argIdx, store, osmCache, loopv, dbWrites,
                   geoObs, trace, lastUpsert, snap>>

\* syncFlowers line 108
SyncFlowers ==
    /\ pc = "syncFlowers"
    /\ call' = NewCall("getAllFlowers", <<>>)
    /\ pc' = "getAllFlowers"
    /\ trace' = Append(trace, Ev("call", "syncFlowers", 0))
    /\ Arm("syncFlowers", <<>>, flowerTable)
    /\ UNCHANGED <<probe, retErr, ops, rewardReqs, faults, proc, clock, argIdx, store, osmCache, loopv, netReqs, dbWrites,
                   geoObs, lastUpsert>>

\* syncFlowers lines 109-114
SyncFlowersFetched ==
    /\ pc = "getAllFlowers" /\ call.status = "returned"
    /\ retErr' = call.ret.err
    /\ IF call.ret.err # Nil
       THEN pc' = handleErr(call.ret.err, mainNext("syncFlowers")) /\ UNCHANGED loopv
       ELSE pc' = "flowersLoop" /\ items' = call.ret.t /\ idx' = 1 /\ acc' = <<>>
    /\ call' = NoCall
    /\ UNCHANGED <<probe, ops, rewardReqs, faults, proc, clock, argIdx, store, osmCache, netReqs, dbWrites,
                   geoObs, trace, lastUpsert, snap>>

\* syncFlowers lines 115-156: one iteration
SyncFlowersItem ==
    /\ pc = "flowersLoop" /\ idx <= Len(items)
    /\ \E outcome \in MayDo :
         LET f == items[idx]
             g == reverseGeocode(osmCache, f.H3Hex, outcome, upVer)
         IN  /\ GeoObserved(f.H3Hex, g)
             /\ Injected(g.err # Nil)
             /\ netReqs' = (netReqs \/ g.called)
             /\ osmCache' = g.cache
             /\ ops' = reverseGeocodeOps(~g.called)
             /\ retErr' = g.err
             /\ IF g.err # Nil
                THEN /\ pc' = handleErr(g.err, mainNext("syncFlowers"))
                     /\ UNCHANGED <<loopv, flowerTable>>
                ELSE /\ acc' = Append(acc, FlowerRow(f, g.ret))
                     /\ idx' = idx + 1
                     /\ flowerTable' = flowersLoopStore(flowerTable, FlowerRow(f, g.ret),
                                                        clock, upsertTime)
                     /\ UNCHANGED <<pc, items>>
    /\ UNCHANGED <<probe, rewardReqs, proc, clock, argIdx, hexTable, rewardTable, call,
                   dbWrites, trace, lastUpsert, snap>>

\* syncFlowers line 157 and main line 47
SyncFlowersUpsert ==
    /\ pc = "flowersLoop" /\ idx > Len(items)
    /\ \E dbOk \in DbMay :
         LET w == CreateInBatches(flowerTable, acc, batchSize, clock + 1, upsertTime, dbOk)
         IN  /\ flowerTable' = w.table
             /\ Injected(w.err # Nil)
             /\ dbWrites' = (dbWrites \/ w.n > 0)
             /\ retErr' = w.err
             /\ pc' = handleErr(w.err, mainNext("syncFlowers"))
             /\ IF w.err # Nil
                THEN UNCHANGED <<trace, lastUpsert, snap>>
                ELSE /\ trace' = Append(trace, Ev("ret", "syncFlowers", 0))
                     /\ lastUpsert' = LogRows(lastUpsert, "flowers", acc, clock + 1)
                     /\ Snapshot("syncFlowers", <<>>, w.table)
    /\ clock' = clock + 1
    /\ items' = <<>> /\ idx' = 1 /\ acc' = <<>>
    /\ UNCHANGED <<probe, ops, rewardReqs, proc, argIdx, hexTable, rewardTable, osmCache, call, netReqs,
                   geoObs>>

\* syncRewards lines 57-66
SyncRewards ==
    /\ pc = "syncRewards"
    /\ \E dbOk \in DbMay, flowerNames \in FindFlowerNames(flowerTable) :
         /\ Injected(~dbOk)
         /\ Arm("syncRewards", SeqToSet(flowerNames), rewardTable)
         /\ retErr' = (IF dbOk THEN Nil ELSE <<"db">>)
         /\ IF dbOk
            THEN pc' = "rewardsLoop" /\ items' = flowerNames /\ idx' = 1 /\ acc' = <<>>
            ELSE pc' = handleErr(<<"db">>, mainNext("syncRewards")) /\ UNCHANGED loopv
    /\ trace' = Append(trace, Ev("call", "syncRewards", 0))
    /\ rewardReqs' = <<>>
    /\ UNCHANGED <<probe, ops, proc, clock, argIdx, store, osmCache, call, netReqs, dbWrites,
                   geoObs, lastUpsert>>

\* syncRewards line 72
SyncRewardsGet ==
    /\ pc = "rewardsLoop" /\ idx <= Len(items)
    /\ call' = NewCall("getRewards", items[idx])
    /\ pc' = "getRewards"
    /\ rewardReqs' = Append(rewardReqs, items[idx])
    /\ UNCHANGED <<probe, retErr, ops, faults, proc, clock, argIdx, store, osmCache, loopv, netReqs, dbWrites,
                   geoObs, trace, lastUpsert, snap>>

\* getRewards lines 447-451 and syncRewards lines 73-102
SyncRewardsUpsert ==
    /\ pc = "getRewards" /\ call.status = "returned"
    /\ \E dbOk \in DbMay, order \in Perms(DOMAIN call.ret.t) :
         LET rewardItems == Flatten(call.ret.t, order)
             rewards == [i \in 1..Len(rewardItems) |-> RewardRow(rewardItems[i])]
             w == CreateInBatches(rewardTable, rewards, batchSize, clock + 1,
                                  upsertTime, dbOk)
         IN  IF call.ret.err # Nil
             THEN pc' = handleErr(call.ret.err, mainNext("syncRewards"))
                  /\ retErr' = call.ret.err
                  /\ UNCHANGED <<rewardTable, dbWrites, idx, lastUpsert, faults>>
             ELSE /\ rewardTable' = w.table
                  /\ Injected(w.err # Nil)
                  /\ dbWrites' = (dbWrites \/ w.n > 0)
                  /\ retErr' = w.err
                  /\ IF w.err # Nil
                     THEN pc' = handleErr(w.err, mainNext("syncRewards"))
                          /\ UNCHANGED <<idx, lastUpsert>>
                     ELSE /\ pc' = "rewardsLoop"
                          /\ idx' = idx + 1
                          /\ lastUpsert' = LogRows(lastUpsert, "rewards", rewards, clock + 1)
    /\ clock' = clock + 1
    /\ call' = NoCall
    /\ UNCHANGED <<probe, ops, rewardReqs, proc, argIdx, hexTable, flowerTable, osmCache,
                   items, acc, netReqs,
                   geoObs, trace, snap>>

\* syncRewards line 104 and main line 48
SyncRewardsReturn ==
    /\ pc = "rewardsLoop" /\ idx > Len(items)
    /\ pc' = mainNext("syncRewards")
    /\ trace' = Append(trace, Ev("ret", "syncRewards", 0))
    /\ Snapshot("syncRewards", SeqToSet(items), rewardTable)
    /\ items' = <<>> /\ idx' = 1 /\ acc' = <<>>
    /\ UNCHANGED <<probe, retErr, ops, rewardReqs, faults, proc, clock, argIdx, store, osmCache, call, netReqs, dbWrites,
                   geoObs, lastUpsert>>

\* main lines 49-53 and syncHexes line 161
HexGroups ==
    /\ pc = "hexGroups"
    /\ IF argIdx > Len(args)
       THEN pc' = "exit" /\ UNCHANGED <<call, trace, snap>>
       ELSE IF ArgRejected(args[argIdx])
       THEN pc' = "panic" /\ UNCHANGED <<call, trace, snap>>
       ELSE /\ call' = NewCall("getAllHexes", args[argIdx])
            /\ pc' = "getAllHexes"
            /\ trace' = Append(trace, Ev("call", "syncHexes", argIdx))
            /\ Arm("syncHexes", args[argIdx], hexTable)
    /\ UNCHANGED <<probe, retErr, ops, rewardReqs, faults, proc, clock, argIdx, store, osmCache, loopv, netReqs, dbWrites,
                   geoObs, lastUpsert>>

\* syncHexes lines 162-165
SyncHexesFetched ==
    /\ pc = "getAllHexes" /\ call.status = "returned"
    /\ retErr' = call.ret.err
    /\ IF call.ret.err # Nil
       THEN pc' = handleErr(call.ret.err, "hexGroups") /\ UNCHANGED loopv
       ELSE pc' = "hexesLoop" /\ items' = call.ret.t /\ idx' = 1 /\ acc' = <<>>
    /\ call' = NoCall
    /\ UNCHANGED <<probe, ops, rewardReqs, faults, proc, clock, argIdx, store, osmCache, netReqs, dbWrites,
                   geoObs, trace, lastUpsert, snap>>

\* syncHexes line 172
SyncHexesGetDetails ==
    /\ pc = "hexesLoop" /\ idx <= Len(items)
    /\ call' = NewCall("getHexDetails", items[idx].ID)
    /\ pc' = "getHexDetails"
    /\ UNCHANGED <<probe, retErr, ops, rewardReqs, faults, proc, clock, argIdx, store, osmCache, loopv, netReqs, dbWrites,
                   geoObs, trace, lastUpsert, snap>>

\* syncHexes lines 173-206: the rest of one iteration
SyncHexesItem ==
    /\ pc = "getHexDetails" /\ call.status = "returned"
    /\ IF call.ret.err # Nil
       THEN /\ pc' = handleErr(call.ret.err, "hexGroups")
            /\ retErr' = call.ret.err
            /\ UNCHANGED <<hexTable, osmCache, idx, netReqs, dbWrites, geoObs,
                           lastUpsert, clock, faults, ops>>
       ELSE \E outcome \in MayDo, dbOk \in DbMay :
              LET hex == items[idx]
                  g == reverseGeocode(osmCache, hex.ID, outcome, upVer)
                  row == HexRow(hex, g.ret, call.ret.t)
                  w == Create(hexTable, row, clock + 1, upsertTime, dbOk)
              IN  /\ GeoObserved(hex.ID, g)
                  /\ Injected(g.err # Nil \/ (g.err = Nil /\ w.err # Nil))
                  /\ netReqs' = (netReqs \/ g.called)
                  /\ osmCache' = g.cache
                  /\ ops' = reverseGeocodeOps(~g.called)
                  /\ IF g.err # Nil
                     THEN pc' = handleErr(g.err, "hexGroups")
                          /\ retErr' = g.err
                          /\ UNCHANGED <<hexTable, idx, dbWrites, lastUpsert, clock>>
                     ELSE /\ hexTable' = w.table
                          /\ dbWrites' = (dbWrites \/ w.n > 0)
                          /\ clock' = clock + 1
                          /\ retErr' = w.err
                          /\ IF w.err # Nil
                             THEN pc' = handleErr(w.err, "hexGroups")
                                  /\ UNCHANGED <<idx, lastUpsert>>
                             ELSE /\ pc' = "hexesLoop"
                                  /\ idx' = idx + 1
                                  /\ lastUpsert' = LogRows(lastUpsert, "hexes", <<row>>,
                                                           clock + 1)
    /\ call' = NoCall
    /\ UNCHANGED <<probe, rewardReqs, proc, argIdx, flowerTable, rewardTable, items, acc,
                   trace, snap>>

\* syncHexes line 208 and main line 53
SyncHexesReturn ==
    /\ pc = "hexesLoop" /\ idx > Len(items)
    /\ pc' = "hexGroups"
    /\ argIdx' = argIdx + 1
    /\ trace' = Append(trace, Ev("ret", "syncHexes", argIdx))
    /\ Snapshot("syncHexes", args[argIdx], hexTable)
    /\ items' = <<>> /\ idx' = 1 /\ acc' = <<>>
    /\ UNCHANGED <<probe, retErr, ops, rewardReqs, faults, proc, clock, store, osmCache, call, netReqs, dbWrites,
                   geoObs, lastUpsert>>

\* the process has ended; cron starts the next one with the same command
\* line, a fresh address space and the same store
Restart ==
    /\ pc \in {"exit", "panic"}
    /\ run < MaxRuns
    /\ run' = run + 1
    /\ pc' = "initGeocodeCache"
    /\ clock' = clock + 1
    /\ upsertTime' = clock + 1
    /\ args' = args
    /\ argIdx' = 1
    /\ upVer' \in {v \in {upVer, upVer + 1} : v <= MaxVer}
    /\ osmCache' = <<>>
    /\ call' = NoCall
    /\ items' = <<>> /\ idx' = 1 /\ acc' = <<>>
    /\ netReqs' = FALSE /\ dbWrites' = FALSE
    /\ osmCalls' = [c \in Cells |-> 0]
    /\ osmLookups' = [c \in Cells |-> 0]
    /\ geoRet' = NoGeoRet
    /\ trace' = <<>>
    /\ retErr' = Nil /\ ops' = <<>> /\ rewardReqs' = <<>>
    /\ UNCHANGED <<probe, faults, store, lastUpsert, snap>>

Next ==
    \/ InitGeocodeCache
    \/ PollenAttempt
    \/ SyncFlowers
    \/ SyncFlowersFetched
    \/ SyncFlowersItem
    \/ SyncFlowersUpsert
    \/ SyncRewards
    \/ SyncRewardsGet
    \/ SyncRewardsUpsert
    \/ SyncRewardsReturn
    \/ HexGroups
    \/ SyncHexesFetched
    \/ SyncHexesGetDetails
    \/ SyncHexesItem
    \/ SyncHexesReturn
    \/ Restart

Spec == Init /\ [][Next]_vars

\* the steps of one process; every HTTP call, sleep and store statement
\* returns, so a process that can take a step does
RunStep ==
    \/ InitGeocodeCache \/ PollenAttempt
    \/ SyncFlowers \/ SyncFlowersFetched \/ SyncFlowersItem \/ SyncFlowersUpsert
    \/ SyncRewards \/ SyncRewardsGet \/ SyncRewardsUpsert \/ SyncRewardsReturn
    \/ HexGroups \/ SyncHexesFetched \/ SyncHexesGetDetails \/ SyncHexesItem
    \/ SyncHexesReturn

\* one process run from the initial store, under that assumption
LiveSpec == Init /\ [][RunStep]_vars /\ WF_vars(RunStep)

\* ------------------------------------------- initGeocodeCache on its own
\* the place Nominatim gave for a cell at version v, as reverseGeocode
\* builds it
PlaceAt(hex, v) ==
    [Lat |-> hexToLatLng(hex)[1], Lng |-> hexToLatLng(hex)[2],
     Address |-> OSMPlace(hex, v).display_name, Suburb |-> OSMPlace(hex, v).suburb]

\* the contents pollen_hexes and pollen_flowers can have when a process
\* starts: at most one row per id, each row enriched at some version
StoredHexes ==
    {t \in SUBSET {HexRow([ID |-> c, FlowerCount |-> 1], PlaceAt(c, v),
                          HexDetailAt(c, v)) : c \in Cells, v \in 0..MaxVer} :
        \A r1, r2 \in t : r1.ID = r2.ID => r1 = r2}
StoredFlowers ==
    {t \in SUBSET {FlowerRow([ID |-> id, H3Hex |-> c, Nickname |-> 0], PlaceAt(c, v)) :
                      id \in {"f1", "f2"}, c \in Cells, v \in 0..MaxVer} :
        \A r1, r2 \in t : r1.ID = r2.ID => r1 = r2}

InitWarm ==
    /\ hexTable \in StoredHexes /\ flowerTable \in StoredFlowers /\ rewardTable = {}
    /\ pc = "initGeocodeCache"
    /\ run = 1 /\ clock = 0 /\ upsertTime = 0 /\ args = <<>> /\ argIdx = 1 /\ upVer = 0
    /\ osmCache = <<>> /\ call = NoCall
    /\ items = <<>> /\ idx = 1 /\ acc = <<>>
    /\ netReqs = FALSE /\ dbWrites = FALSE
    /\ osmCalls = [c \in Cells |-> 0] /\ osmLookups = [c \in Cells |-> 0]
    /\ geoRet = NoGeoRet /\ trace = <<>> /\ lastUpsert = {}
    /\ snap = [r \in Routines |-> NoSnap] /\ faults = 0
    /\ retErr = Nil /\ ops = <<>> /\ rewardReqs = <<>>
    /\ vIn = <<>> /\ vOut = <<>>

NextWarm == InitGeocodeCache

SpecWarm == InitWarm /\ [][NextWarm]_vars

\* ------------------------------------------------- isValidHex on its own
\* tokens the strings given to isValidHex are made of
TokGood1   == <<"8", "5", "2", "a", "1", "3", "9", "3", "f", "f", "f", "f", "f", "f", "f">>
TokGood2   == <<"8", "5", "2", "a", "1", "0", "4", "b", "f", "f", "f", "f", "f", "f", "f">>
TokUpper   == <<"8", "5", "2", "A", "1", "3", "9", "3", "F", "F", "F", "F", "F", "F", "F">>
TokSigned  == <<"-", "5", "2", "a", "1", "3", "9", "3", "f", "f", "f", "f", "f", "f", "f">>
TokShort   == <<"8", "5", "2", "a", "1", "3", "9", "3", "f", "f", "f", "f", "f", "f">>
TokLong    == <<"8", "5", "2", "a", "1", "3", "9", "3", "f", "f", "f", "f", "f", "f", "f", "f">>
TokBadChar == <<"8", "5", "2", "a", "1", "3", "9", "3", "f", "f", "f", "f", "f", "f", "g">>
TokNotHex  == <<"n", "o", "t", "h", "e", "x">>
Tokens == {<<>>, TokGood1, TokGood2, TokUpper, TokSigned, TokShort, TokLong,
           TokBadChar, TokNotHex}

\* strings.Join(toks, ",")
RECURSIVE Join(_)
Join(toks) ==
    IF Len(toks) = 1 THEN toks[1]
    ELSE toks[1] \o <<",">> \o Join(Tail(toks))

ValidInputs == {Join(toks) : toks \in UNION {[1..n -> Tokens] : n \in 1..MaxTokens}}

InitValid ==
    /\ vIn \in ValidInputs /\ vOut = <<>>
    /\ pc = "isValidHex"
    /\ run = 1 /\ clock = 0 /\ upsertTime = 0 /\ args = <<>> /\ argIdx = 1 /\ upVer = 0
    /\ hexTable = {} /\ flowerTable = {} /\ rewardTable = {}
    /\ osmCache = <<>> /\ call = NoCall
    /\ items = <<>> /\ idx = 1 /\ acc = <<>>
    /\ netReqs = FALSE /\ dbWrites = FALSE
    /\ osmCalls = [c \in Cells |-> 0] /\ osmLookups = [c \in Cells |-> 0]
    /\ geoRet = NoGeoRet /\ trace = <<>> /\ lastUpsert = {}
    /\ snap = [r \in Routines |-> NoSnap] /\ faults = 0
    /\ retErr = Nil /\ ops = <<>> /\ rewardReqs = <<>>

\* isValidHex(vIn) is called and returns
Validate ==
    /\ pc = "isValidHex" /\ vOut = <<>>
    /\ vOut' = <<isValidHex(vIn)>>
    /\ pc' = "done"
    /\ UNCHANGED <<vIn, proc, clock, argIdx, store, osmCache, call, loopv, netReqs,
                   dbWrites, geoObs, trace, lastUpsert, snap, faults, retErr, ops,
                   rewardReqs>>

NextValid == Validate

SpecValid == InitValid /\ [][NextValid]_vars

\* ----------------------------------------------------------------- claims
TableOf(tbl) ==
    CASE tbl = "hexes" -> hexTable
      [] tbl = "flowers" -> flowerTable
      [] tbl = "rewards" -> rewardTable

\* C1: a fetch whose attempts have all failed returns a non-nil error, the
\* error of its last attempt, never a zero value with a nil error.
C1_ExhaustedFetchReturnsLastError ==
    (call.status = "returned" /\ call.attempts = pollenRetries /\ call.last.err # Nil)
        => (call.ret.err # Nil /\ call.ret.err = call.last.err)

\* C2: if any argument is empty or fails isValidHex, no network request has
\* been issued and nothing has been written to the store in this run.
C2_ArgumentsValidatedBeforeAnyWork ==
    (\E k \in 1..Len(args) : ArgRejected(args[k])) => (~netReqs /\ ~dbWrites)

\* C3: the stored last-updated of every row is the time at which the latest
\* upsert of its key executed.
C3_LastUpdatedIsUpsertTime ==
    \A e \in lastUpsert : \A r \in TableOf(e.tbl) : r.ID = e.id => r.UpdatedAt = e.at

\* C4: a returned fetch made exactly 3 attempts if all failed, exactly k if
\* the k-th was the first to succeed (returning that attempt's decoded value),
\* and slept once between consecutive attempts only: attempts - 1 times.
C4_AttemptsAndSleeps ==
    call.status = "returned" =>
        /\ call.last.err # Nil => call.attempts = pollenRetries
        /\ call.last.err = Nil =>
              /\ call.attempts = call.i + 1
              /\ call.attempts <= pollenRetries
              /\ call.ret = [t |-> Response(call.fn, call.arg, upVer), err |-> Nil]
        /\ call.sleeps = call.attempts - 1

\* the list of strings a JSON coverage value denotes, empty when it is not a
\* list of strings
StringList(j) ==
    IF j.json = "array" /\ \A i \in 1..Len(j.v) : j.v[i].json = "string"
    THEN [i \in 1..Len(j.v) |-> j.v[i].v[1]]
    ELSE <<>>

\* C5: a stored Reward's coverage is the list of strings its upstream item
\* carries (same elements, same order), and empty only for an item whose
\* coverage is not a list of strings.
C5_CoverageListStored ==
    \A r \in rewardTable : \A v \in 0..MaxVer :
        \A d \in DOMAIN RewardsAt(r.Device, v) :
            \A i \in 1..Len(RewardsAt(r.Device, v)[d]) :
                LET item == RewardsAt(r.Device, v)[d][i]
                IN  (item.rewardID = r.ID /\ item.PCN = r.PCN)
                        => r.Coverage = StringList(item.coverage)

\* C6: a reverseGeocode of a cell that has a cache entry returns exactly that
\* entry, without error, and makes no upstream call.
C6_CacheHitServedFromCache ==
    [][(geoRet'.n = geoRet.n + 1 /\ geoRet'.hex \in DOMAIN osmCache)
          => /\ geoRet'.ret = osmCache[geoRet'.hex]
             /\ geoRet'.err = Nil
             /\ osmCalls' = osmCalls
             /\ osmCache' = osmCache]_vars

\* a hit on an entry loaded at warm-up (no upstream call for the cell in this
\* run) whose value the upstream would no longer give
C6_Witness ==
    /\ geoRet.n > 0 /\ geoRet.cached
    /\ osmCalls[geoRet.hex] = 0
    /\ geoRet.ret = osmCache[geoRet.hex]
    /\ geoRet.ret.Address # OSMPlace(geoRet.hex, upVer).display_name

\* C7: within one run the reverse-geocode upstream is called at most once
\* for each cell ID.
C7_OneUpstreamCallPerCell ==
    \A c \in Cells : osmCalls[c] <= 1

\* a cell shared by two flowers and a hex, resolved three times in the run
C7_Witness ==
    \E c \in Cells : osmLookups[c] >= 3 /\ osmCalls[c] = 1

\* C8: when a routine returns from its second run in succession on the same
\* input and the same upstream version, its table has the same keys and the
\* same non-timestamp columns as when its first run returned.
C8_RerunLeavesColumnsUnchanged ==
    [][\A r \in Routines :
          (snap[r].valid /\ snap'[r].valid
             /\ snap'[r].input = snap[r].input /\ snap'[r].ver = snap[r].ver)
          => snap'[r].proj = snap[r].proj]_vars

\* C9: each key ever upserted has exactly one row, whose non-timestamp
\* columns are those of the latest upsert of that key; every row comes from
\* an upsert.
C9_OneRowPerKeyLastWriteWins ==
    /\ \A tbl \in {"hexes", "flowers", "rewards"} :
          /\ \A r1, r2 \in TableOf(tbl) : r1.ID = r2.ID => r1 = r2
          /\ \A r \in TableOf(tbl) : \E e \in lastUpsert : e.tbl = tbl /\ e.id = r.ID
    /\ \A e \in lastUpsert :
          \E r \in TableOf(e.tbl) : r.ID = e.id /\ Cols(r) = e.cols

\* a hex upserted twice in one run, the second time with another flower count
C9_Witness ==
    /\ args = <<ArgB, ArgA>> /\ run = 1 /\ pc = "exit"
    /\ \E e \in lastUpsert :
          e.tbl = "hexes" /\ e.id = "c2" /\ e.n = 2 /\ e.cols.FlowerCount = upVer + 2

\* the calls and returns of a run that completes, in order
RECURSIVE HexPhases(_, _)
HexPhases(k, n) ==
    IF k > n THEN <<>>
    ELSE <<Ev("call", "syncHexes", k), Ev("ret", "syncHexes", k)>> \o HexPhases(k + 1, n)
ExpectedTrace(n) ==
    << Ev("call", "initGeocodeCache", 0), Ev("ret", "initGeocodeCache", 0),
       Ev("call", "syncFlowers", 0), Ev("ret", "syncFlowers", 0),
       Ev("call", "syncRewards", 0), Ev("ret", "syncRewards", 0) >> \o HexPhases(1, n)
IsPrefix(s, t) == Len(s) <= Len(t) /\ SubSeq(t, 1, Len(s)) = s

\* C10: the phases of a run are called, each after the previous one has
\* returned, in the order warm-up, syncFlowers, syncRewards, syncHexes per
\* argument in argument order; reverseGeocode runs only after warm-up returned.
C10_PhaseOrder ==
    /\ IsPrefix(trace, ExpectedTrace(Len(args)))
    /\ (\E c \in Cells : osmLookups[c] > 0)
          => (Len(trace) >= 2 /\ trace[2] = Ev("ret", "initGeocodeCache", 0))
    /\ pc = "exit" => trace = ExpectedTrace(Len(args))

\* a run with two hex groups has completed
C10_Witness ==
    pc = "exit" /\ Len(args) = 2 /\ trace = ExpectedTrace(2)

\* C11: once a phase has returned an error to main the process is aborted:
\* the only step that follows is the start of the next process, which makes
\* no request and leaves the store as it is; no phase of this run starts.
C11_ErrorAbortsProcess ==
    [][retErr # Nil
          => /\ pc = "panic"
             /\ run' = run + 1
             /\ hexTable' = hexTable /\ flowerTable' = flowerTable
             /\ rewardTable' = rewardTable
             /\ ~netReqs' /\ ~dbWrites'
             /\ trace' = <<>>]_vars

\* syncRewards returned a store error after syncFlowers had written its rows,
\* with hex groups still to be synced
C11_Witness ==
    /\ retErr = <<"db">> /\ pc = "panic" /\ dbWrites
    /\ trace[Len(trace)] = Ev("call", "syncRewards", 0)
    /\ Len(args) = 2

\* the comma-free stretches of s that are bounded by commas or by the ends
\* of s, as pairs of positions (an empty token is a pair <<i, i - 1>>)
TokenSpans(s) ==
    {sp \in (1..(Len(s) + 1)) \X (0..Len(s)) :
        /\ sp[1] <= sp[2] + 1
        /\ (sp[1] = 1 \/ s[sp[1] - 1] = ",")
        /\ (sp[2] = Len(s) \/ s[sp[2] + 1] = ",")
        /\ \A k \in sp[1]..sp[2] : s[k] # ","}

\* tok is a base-16 integer as strconv reads one: hex digits after an
\* optional sign
IsBase16(tok) ==
    \E sign \in {<<>>, <<"+">>, <<"-">>} :
        /\ Len(tok) > Len(sign)
        /\ SubSeq(tok, 1, Len(sign)) = sign
        /\ \A k \in (Len(sign) + 1)..Len(tok) : tok[k] \in HexDigits

\* C12: isValidHex(s) is true exactly when every comma-separated token of s
\* has 15 characters and parses as a base-16 integer; false for the empty
\* string, for a leading, trailing or doubled comma and for a token of
\* another length; true for "852a1393fffffff,852a104bfffffff".
C12_IsValidHexIff ==
    vOut # <<>> =>
        /\ vOut[1] = (\A sp \in TokenSpans(vIn) :
                         /\ sp[2] - sp[1] + 1 = HexLen
                         /\ IsBase16(SubSeq(vIn, sp[1], sp[2])))
        /\ vIn = <<>> => ~vOut[1]
        /\ (\E sp \in TokenSpans(vIn) : sp[2] - sp[1] + 1 # HexLen) => ~vOut[1]
        /\ (vIn # <<>> /\ (vIn[1] = "," \/ vIn[Len(vIn)] = ",")) => ~vOut[1]
        /\ (\E k \in 1..(Len(vIn) - 1) : vIn[k] = "," /\ vIn[k + 1] = ",") => ~vOut[1]
        /\ vIn = Join(<<TokGood1, TokGood2>>) => vOut[1]

\* isValidHex has accepted a string of three tokens, one of them signed
C12_Witness ==
    /\ vOut = <<TRUE>>
    /\ vIn = Join(<<TokGood1, TokSigned, TokUpper>>)

\* C13: a reward item whose coverage is not a list is stored with an empty
\* coverage, and no attempt of a reward fetch fails on the shape of the
\* coverage field: an attempt fails only when the environment fails it.
C13_NonListCoverageDecodes ==
    /\ \A r \in rewardTable : \A v \in 0..MaxVer :
          \A d \in DOMAIN RewardsAt(r.Device, v) :
              \A i \in 1..Len(RewardsAt(r.Device, v)[d]) :
                  (RewardsAt(r.Device, v)[d][i].rewardID = r.ID
                      /\ RewardsAt(r.Device, v)[d][i].coverage.json # "array")
                  => r.Coverage = <<>>
    /\ (call.fn = "getRewards" /\ call.last.err # Nil)
          => call.last.err[1] \in Outcomes \ {"ok"}

\* the reward whose coverage is the JSON string "[]" is stored, fetched by a
\* getRewards that succeeded at its first attempt
C13_Witness ==
    /\ \E r \in rewardTable : r.ID = "r2" /\ r.Coverage = <<>>
    /\ pc = "getRewards" /\ call.arg = "f1" /\ call.status = "returned"
    /\ call.attempts = 1 /\ call.ret.err = Nil

\* C14: a reverseGeocode that misses the cache and whose upstream call fails
\* makes that one upstream call and no other, hands its error to the caller
\* (which returns it to main), and leaves the cache as it was, without an
\* entry for the cell.
C14_GeocodeFailureNotRetriedNotCached ==
    [][(geoRet'.n = geoRet.n + 1 /\ geoRet'.err # Nil)
          => /\ geoRet'.hex \notin DOMAIN osmCache
             /\ osmCalls' = [osmCalls EXCEPT ![geoRet'.hex] = @ + 1]
             /\ ops' = <<"osmRateLimit.Take", "GET osm">>
             /\ osmCache' = osmCache
             /\ geoRet'.ret = ZeroGeo
             /\ retErr' = geoRet'.err]_vars

\* the geocoding of a hex has failed, in a run that had geocoded another
\* cell before
C14_Witness ==
    /\ geoRet.err # Nil /\ retErr = geoRet.err
    /\ geoRet.hex \notin DOMAIN osmCache /\ osmCalls[geoRet.hex] = 1
    /\ DOMAIN osmCache # {}
    /\ trace[Len(trace)][2] = "syncHexes"

\* C15: each attempt of a primary fetch takes the primary limiter once, just
\* before its request, and nothing else; each reverseGeocode that goes
\* upstream takes the geocoding limiter once, just before its request, and
\* nothing else; a reverseGeocode served from the cache takes no limiter.
C15_LimiterPerAttempt ==
    [][/\ call'.attempts = call.attempts + 1
             => ops' = <<"pollenRateLimit.Take", "GET pollen">>
       /\ (geoRet'.n = geoRet.n + 1 /\ osmCalls' # osmCalls)
             => ops' = <<"osmRateLimit.Take", "GET osm">>
       /\ (geoRet'.n = geoRet.n + 1 /\ osmCalls' = osmCalls)
             => (ops' = <<>> /\ geoRet'.cached)
       /\ ops' # ops => (call'.attempts = call.attempts + 1
                            \/ geoRet'.n = geoRet.n + 1 \/ run' = run + 1)]_vars

\* a second attempt of a fetch, in a run that has geocoded a cell upstream
C15_Witness ==
    /\ call.attempts = 2 /\ ops = <<"pollenRateLimit.Take", "GET pollen">>
    /\ \E c \in Cells : osmCalls[c] = 1

\* C16: syncHexes writes a Hex row only after the detail fetch of that hex
\* succeeded, so every stored row carries the detail fields the upstream
\* gave, never their zero values.
C16_HexUpsertOnlyAfterDetails ==
    [][hexTable' # hexTable
          => /\ call.fn = "getHexDetails" /\ call.arg = items[idx].ID
             /\ call.last.err = Nil
             /\ \A r \in hexTable' \ hexTable :
                   /\ r.ID = items[idx].ID
                   /\ r.Attach = HexDetailAt(r.ID, upVer).Attach
                   /\ r.Flowers = HexDetailAt(r.ID, upVer).Flowers]_vars

\* C17: syncHexes writes one row at a time, in list order, the row of the
\* hex it is at; the step at which it fails on the k-th hex writes nothing,
\* leaves the rows of hexes 1..k-1 stored with the values this call gave
\* them, and ends the run, so no row is written for hex k or a later one.
C17_HexFailureKeepsEarlierRows ==
    [][/\ (pc = "getHexDetails" /\ hexTable' # hexTable)
             => /\ retErr' = Nil /\ idx' = idx + 1 /\ pc' = "hexesLoop"
                /\ \A r \in hexTable' \ hexTable : r.ID = items[idx].ID
                /\ \A r \in hexTable : r.ID # items[idx].ID => r \in hexTable'
       /\ (pc = "getHexDetails" /\ retErr' # Nil)
             => /\ hexTable' = hexTable /\ lastUpsert' = lastUpsert
                /\ pc' = "panic" /\ idx' = idx /\ items' = items
                /\ \A i \in 1..(idx - 1) :
                      \E r \in hexTable', e \in lastUpsert' :
                          /\ r.ID = items[i].ID /\ r.FlowerCount = items[i].FlowerCount
                          /\ e.tbl = "hexes" /\ e.id = r.ID /\ e.cols = Cols(r)
       /\ (pc = "panic" /\ retErr # Nil) => hexTable' = hexTable]_vars

\* syncHexes has failed at the second hex of its list: the first hex has its
\* new row, the second still the row an earlier call wrote
C17_Witness ==
    /\ pc = "panic" /\ retErr # Nil /\ trace[Len(trace)][2] = "syncHexes"
    /\ Len(items) = 2 /\ idx = 2
    /\ \E r \in hexTable : r.ID = items[1].ID /\ r.FlowerCount = items[1].FlowerCount
    /\ \E r \in hexTable : r.ID = items[2].ID /\ r.FlowerCount # items[2].FlowerCount

\* C18: in a run, getRewards is called for stored flower ids only, for each
\* at most once, and by the time syncRewards has returned for every flower
\* id in the store, those upserted by syncFlowers in this run included.
C18_RewardsFetchedForStoredFlowers ==
    /\ \A i, j \in 1..Len(rewardReqs) : rewardReqs[i] = rewardReqs[j] => i = j
    /\ SeqToSet(rewardReqs) \subseteq Keys(flowerTable)
    /\ call.fn = "getRewards" => call.arg = rewardReqs[Len(rewardReqs)]
    /\ (\E i \in 1..Len(trace) : trace[i] = Ev("ret", "syncRewards", 0))
          => /\ SeqToSet(rewardReqs) = Keys(flowerTable)
             /\ \A e \in lastUpsert : e.tbl = "flowers" => e.id \in SeqToSet(rewardReqs)

\* syncRewards has returned in the run in which syncFlowers stored the two
\* flowers
C18_Witness ==
    /\ run = 1 /\ pc = "hexGroups" /\ dbWrites
    /\ Len(rewardReqs) = 2 /\ Cardinality(flowerTable) = 2

\* C19: every run ends, having completed its phases or aborted; no fetch
\* makes more than 3 attempts and no routine goes past the end of its list.
C19_EveryRunTerminates ==
    /\ [](call.attempts <= pollenRetries /\ idx <= Len(items) + 1)
    /\ <>[](pc \in {"exit", "panic"})

\* a run has completed all its phases over two hex groups although the
\* environment failed as many attempts as one fetch makes
C19_Witness ==
    /\ pc = "exit" /\ run = 1 /\ Len(args) = 2
    /\ faults >= pollenRetries

\* C20: within a run a cache entry, once present, stays and keeps its value,
\* and a reverseGeocode that succeeds returns the entry the cache then holds
\* for the cell: two successful calls for one cell return the same value.
C20_CacheEntriesStable ==
    [][run' = run
          => /\ \A k \in DOMAIN osmCache :
                   k \in DOMAIN osmCache' /\ osmCache'[k] = osmCache[k]
             /\ (geoRet'.n = geoRet.n + 1 /\ geoRet'.err = Nil)
                   => (geoRet'.hex \in DOMAIN osmCache'
                         /\ geoRet'.ret = osmCache'[geoRet'.hex])]_vars

\* a cell geocoded upstream earlier in the run is served again, from the
\* cache, while the cache holds another cell as well
C20_Witness ==
    /\ geoRet.n > 0 /\ geoRet.cached /\ geoRet.err = Nil
    /\ osmCalls[geoRet.hex] = 1 /\ osmLookups[geoRet.hex] >= 2
    /\ geoRet.ret = osmCache[geoRet.hex]
    /\ DOMAIN osmCache = Cells

\* C21: pollen_flowers changes in a syncFlowers call only by the one batch
\* statement that follows the enrichment of the last flower of the list; an
\* iteration writes nothing, and the iteration whose reverseGeocode fails
\* returns the error with the table as it was.
C21_FlowersWrittenAfterAllEnriched ==
    [][/\ flowerTable' # flowerTable
             => /\ pc = "flowersLoop" /\ idx > Len(items) /\ Len(acc) = Len(items)
                /\ retErr' = Nil
                /\ Keys(flowerTable') = Keys(flowerTable) \cup {acc[i].ID : i \in 1..Len(acc)}
       /\ (pc = "flowersLoop" /\ geoRet'.n = geoRet.n + 1)
             => flowerTable' = flowerTable
       /\ (pc = "flowersLoop" /\ geoRet'.n = geoRet.n + 1 /\ geoRet'.err # Nil)
             => (retErr' = geoRet'.err /\ pc' = "panic")]_vars

\* the geocoding of the second flower has failed after the first flower was
\* enriched with new values: the stored first flower still has its old ones
C21_Witness ==
    /\ pc = "panic" /\ retErr # Nil /\ retErr = geoRet.err
    /\ trace[Len(trace)] = Ev("call", "syncFlowers", 0)
    /\ idx = 2 /\ Len(acc) = 1
    /\ \E r \in flowerTable : r.ID = acc[1].ID /\ r.Nickname # acc[1].Nickname

\* C22: when warm-up has returned, the cache has an entry for exactly the
\* ids of pollen_hexes and the cell ids of pollen_flowers; the entry of a
\* cell that a flower has holds the place columns of a flower row of that
\* cell, also when a hex row has the cell; the entry of any other cell holds
\* the place columns of its hex row.
C22_WarmCacheFromStore ==
    (pc = "syncFlowers" /\ trace = <<Ev("call", "initGeocodeCache", 0),
                                     Ev("ret", "initGeocodeCache", 0)>>)
    => /\ DOMAIN osmCache = {h.ID : h \in hexTable} \cup {f.H3Hex : f \in flowerTable}
       /\ \A k \in DOMAIN osmCache :
             IF \E f \in flowerTable : f.H3Hex = k
             THEN \E f \in flowerTable :
                     /\ f.H3Hex = k
                     /\ osmCache[k] = [Lat |-> f.Lat, Lng |-> f.Lng,
                                       Address |-> f.Address, Suburb |-> f.Suburb]
             ELSE \E h \in hexTable :
                     /\ h.ID = k
                     /\ osmCache[k] = [Lat |-> h.Lat, Lng |-> h.Lng,
                                       Address |-> h.Address, Suburb |-> h.Suburb]

\* warm-up has returned over a store in which a cell has a hex row and a
\* flower row with different places, and another cell a hex row only
C22_Witness ==
    /\ pc = "syncFlowers" /\ Len(trace) = 2
    /\ \E h \in hexTable, f \in flowerTable :
          /\ h.ID = f.H3Hex /\ h.Address # f.Address
          /\ osmCache[h.ID].Address = f.Address
    /\ \E h \in hexTable : \A f \in flowerTable : f.H3Hex # h.ID
====
